---- MODULE Spec2Model ----
(***************************************************************************)
(* Bounded-parallel task runner of dev-tools/mage/common.go:               *)
(* parallelJobs / numParallel / GetDockerInfo / ParallelCtx.               *)
(*                                                                         *)
(* Spec      the runner: callers invoke ParallelCtx, every task is a       *)
(*           goroutine that steps through the go func of ParallelCtx.      *)
(* FairSpec  Spec under the Go scheduler's fairness (a runnable goroutine  *)
(*           eventually runs).                                             *)
(* SpecNum   parallelJobs/numParallel alone, over a wide range of          *)
(*           MAX_PARALLEL strings, processor counts and docker outcomes.   *)
(***************************************************************************)
EXTENDS Integers, Sequences, FiniteSets, TLC

\* ---------------------------------------------------------------- bounds
\* Task goroutines created over the whole run (all invocations together).
MaxTasks == 2
\* Longest MAX_PARALLEL string tried by SpecNum.
MaxEnvLen == 2

\* Largest processor count, local or reported by docker.
MaxCPU == 2

\* A caller makes a first ParallelCtx invocation and a later one.
CallNumbers == {1, 2}
\* runtime.NumCPU() is at least 1.
CPUCounts == 1..MaxCPU
\* NCPU field of a decoded `docker info` (0 when the field is absent).
DockerNCPUs == 0..MaxCPU
\* Characters of the MAX_PARALLEL strings tried.
EnvAlphabet == {"-", "+", "0", "1", "2", "x"}
\* The runner is run with MAX_PARALLEL unset on a host of two processors; docker
\* decides the capacity (SpecNum covers the other settings).
RunnerEnvs == {<<>>}
RunnerCPUs == {2}

\* Goroutine ids: the main goroutine, the task goroutines, one more goroutine
\* of the program that also uses the runner.
Main == 0
TaskIds == 1..MaxTasks
Other == MaxTasks + 1
\* Goroutines that can call ParallelCtx: a task calls it when its function does.
Callers == {Main, Other} \cup TaskIds
\* The runner is called from the main goroutine.
MainCallers == {Main}
\* No goroutine.
NoOwner == 0 - 1

VARIABLES
    maxParallelEnv,         \* os.Getenv("MAX_PARALLEL"), a sequence of characters
    numCPU,                 \* runtime.NumCPU()
    goPanicNil,             \* toolchain: TRUE iff recover() returns nil after panic(nil) (Go < 1.21)
    dockerHost,             \* what dockerInfo() yields on this host
    dockerInfoOnce,         \* TRUE once dockerInfoOnce.Do has run
    dockerInfoValue,        \* cached *DockerInfo
    dockerInfoErr,          \* cached error: TRUE iff non-nil
    parallelJobsSemaphore,  \* the channel: nil, or its capacity and the tokens in it
    numParallelCalls,       \* times numParallel() has been evaluated (channels made)
    parallelJobsLock,       \* goroutine holding parallelJobsLock, or NoOwner
    pjpc,                   \* task -> position inside a parallelJobs() followed step by step
    pjgot,                  \* task -> the channel parallelJobs() returned to it
    pjmax,                  \* task -> maxParallel / max, the locals of numParallel and parallelJobs
    cancelled,              \* contexts whose cancel function has been called
    entry,                  \* caller -> function it entered the runner by
    ctx,                    \* caller -> ctx of the current invocation
    raisedMsg,              \* caller -> message of the error the invocation panicked with
    rpc,                    \* caller -> position of its ParallelCtx call
    ncalls,                 \* caller -> invocations made so far
    fnWrappers,             \* caller -> the functions of the current invocation
    spawned,                \* caller -> iterations of the go-loop done
    wg,                     \* caller -> WaitGroup counter of the current invocation
    errs,                   \* caller -> failure collection of the current invocation
    mu,                     \* caller -> task holding the invocation's mutex, or Unlocked
    nextTask,               \* next unused goroutine id
    tpc,                    \* task -> position in the go func
    towner,                 \* task -> caller whose invocation started it
    tcall,                  \* task -> number of that invocation
    tfn,                    \* task -> its function fw
    tctx,                   \* task -> the context its function was called with
    tread                   \* task -> errs as read by the append it is in

hostVars == <<maxParallelEnv, numCPU, goPanicNil, dockerHost>>
dockerVars == <<dockerInfoOnce, dockerInfoValue, dockerInfoErr>>
lockVars == <<parallelJobsLock, pjpc, pjgot, pjmax>>
callVars == <<rpc, ncalls, fnWrappers, spawned, wg, errs, mu, nextTask, entry, ctx, raisedMsg>>
taskVars == <<tpc, towner, tcall, tfn, tctx, tread>>
vars == <<taskVars, callVars, parallelJobsSemaphore, numParallelCalls, lockVars, cancelled,
          dockerVars, hostVars>>

\* A nil channel, and make(chan int, n).
NilChan == [made |-> FALSE, cap |-> 0, len |-> 0]
MakeChan(n) == [made |-> TRUE, cap |-> n, len |-> 0]
\* A nil *DockerInfo, and a decoded one.
NilInfo == [nil |-> TRUE, NCPU |-> 0]
Info(n) == [nil |-> FALSE, NCPU |-> n]
\* No task holds the mutex.
Unlocked == 0
\* No channel returned yet; a returned channel is known by the evaluation of
\* numParallel that made it and by its capacity.
NoChannel == [gen |-> 0, cap |-> 0]
\* context.Background(), the context a caller of ParallelCtx brings, and no context.
Background == "background"
CallerCtx == "ctx"
NoCtx == "none"

\* ---------------------------------------------------------------- values
\* Go values a task can return or panic with.
NilValue == [type |-> "nil", text |-> <<>>]
ErrorValue(m) == [type |-> "error", text |-> m]
StringValue(m) == [type |-> "string", text |-> m]

\* Texts are sequences of characters.
NilText == <<"<", "n", "i", "l", ">">>
PanicNilText ==
    <<"p", "a", "n", "i", "c", " ", "c", "a", "l", "l", "e", "d", " ", "w", "i", "t", "h", " ",
      "n", "i", "l", " ", "a", "r", "g", "u", "m", "e", "n", "t">>

\* fmt.Sprint of one operand.
Sprint(v) ==
    CASE v.type = "nil" -> NilText
      [] v.type = "error" -> v.text
      [] v.type = "string" -> v.text

\* A wrapped task function: what fw(ctx) does when it is run.
FnOk == [kind |-> "ok", val |-> NilValue]
FnErr(m) == [kind |-> "err", val |-> ErrorValue(m)]
FnPanic(v) == [kind |-> "panic", val |-> v]
\* A function that returns ctx.Err(): an error once its context is cancelled.
CanceledText ==
    <<"c", "o", "n", "t", "e", "x", "t", " ", "c", "a", "n", "c", "e", "l", "e", "d">>
FnCtx == [kind |-> "ctx", val |-> ErrorValue(CanceledText)]
\* A function whose body calls Parallel itself, with NestedFns.
FnNested == [kind |-> "nested", val |-> NilValue]
\* A value of no supported function type: types.FuncTypeWrap returns nil for it.
FnInvalid == [kind |-> "invalid", val |-> NilValue]
Funcs ==
    {FnOk, FnErr(<<"5", "0", "%">>), FnPanic(StringValue(<<"b", "o", "o", "m">>)),
     FnPanic(NilValue)}

\* Of Funcs, the function that returns an error and the one that panics with a
\* string.
MultiFuncs == {FnErr(<<"5", "0", "%">>), FnPanic(StringValue(<<"b", "o", "o", "m">>))}

\* The functions the body of FnNested passes to Parallel.
NestedFns == <<FnOk>>

\* What recover() returns in the deferred function.
Recover(fn, panicNil) ==
    IF fn.kind # "panic" THEN NilValue
    ELSE IF fn.val # NilValue THEN fn.val
    ELSE IF panicNil THEN NilValue
    ELSE ErrorValue(PanicNilText)

\* ---------------------------------------------------------------- strconv.Atoi
DigitVal(ch) ==
    CASE ch = "0" -> 0 [] ch = "1" -> 1 [] ch = "2" -> 2 [] ch = "3" -> 3
      [] ch = "4" -> 4 [] ch = "5" -> 5 [] ch = "6" -> 6 [] ch = "7" -> 7
      [] ch = "8" -> 8 [] ch = "9" -> 9 [] OTHER -> 10

\* The digit loop of Atoi: [n, err] after reading s from left to right.
RECURSIVE AtoiDigits(_, _)
AtoiDigits(s, n) ==
    IF s = <<>> THEN [n |-> n, err |-> FALSE]
    ELSE IF DigitVal(Head(s)) > 9 THEN [n |-> 0, err |-> TRUE]
    ELSE AtoiDigits(Tail(s), n * 10 + DigitVal(Head(s)))

Atoi(s) ==
    IF s = <<>> THEN [n |-> 0, err |-> TRUE]
    ELSE LET signed == Head(s) \in {"-", "+"}
             body == IF signed THEN Tail(s) ELSE s
         IN IF body = <<>> THEN [n |-> 0, err |-> TRUE]
            ELSE LET r == AtoiDigits(body, 0)
                 IN IF r.err THEN r
                    ELSE IF Head(s) = "-" THEN [n |-> 0 - r.n, err |-> FALSE]
                    ELSE r

\* ---------------------------------------------------------------- GetDockerInfo
DockerOutcomes ==
    {[value |-> NilInfo, err |-> TRUE]}
        \cup {[value |-> Info(n), err |-> FALSE] : n \in DockerNCPUs}

\* State of the sync.Once cache after GetDockerInfo(); its return is (value, err).
GetDockerInfo(once, value, err, host) ==
    IF once THEN [once |-> TRUE, value |-> value, err |-> err]
    ELSE [once |-> TRUE, value |-> host.value, err |-> host.err]

\* ---------------------------------------------------------------- numParallel
\* Mutant: the comparison the wrong way round (the larger count wins).
NumParallelDefault_Max(cpus, info) ==
    IF ~info.err /\ info.value.NCPU > cpus THEN info.value.NCPU ELSE cpus

NumParallelDefault(cpus, info) ==
    IF ~info.err /\ info.value.NCPU < cpus THEN info.value.NCPU ELSE cpus

\* Mutant: num >= 0 instead of num > 0.
NumParallel_AcceptsZero(env, cpus, info) ==
    IF env # <<>> /\ ~Atoi(env).err /\ Atoi(env).n >= 0
    THEN Atoi(env).n
    ELSE NumParallelDefault(cpus, info)

NumParallel(env, cpus, info) ==
    IF env # <<>> /\ ~Atoi(env).err /\ Atoi(env).n > 0
    THEN Atoi(env).n
    ELSE NumParallelDefault(cpus, info)

\* TRUE iff numParallel gets as far as calling GetDockerInfo.
NumParallelAsksDocker(env) ==
    ~(env # <<>> /\ ~Atoi(env).err /\ Atoi(env).n > 0)

\* ---------------------------------------------------------------- parallelJobs
\* max := numParallel(); parallelJobsSemaphore = make(chan int, max): the
\* channel, the docker cache, and the count of the evaluations of numParallel.
MakeSemaphore ==
    LET info == IF NumParallelAsksDocker(maxParallelEnv)
                THEN GetDockerInfo(dockerInfoOnce, dockerInfoValue, dockerInfoErr, dockerHost)
                ELSE [once |-> dockerInfoOnce, value |-> dockerInfoValue, err |-> dockerInfoErr]
    IN [sem |-> MakeChan(NumParallel(maxParallelEnv, numCPU, info)),
        once |-> info.once, value |-> info.value, err |-> info.err,
        calls |-> numParallelCalls + 1]

\* parallelJobs(): under parallelJobsLock, create the channel on first use.
\* The state it leaves: the channel it returns (sem) and the docker cache.
ParallelJobs ==
    IF parallelJobsSemaphore = NilChan
    THEN MakeSemaphore
    ELSE [sem |-> parallelJobsSemaphore,
          once |-> dockerInfoOnce, value |-> dockerInfoValue, err |-> dockerInfoErr,
          calls |-> numParallelCalls]

\* ---------------------------------------------------------------- initial states
InitCalls ==
    /\ parallelJobsSemaphore = NilChan
    /\ numParallelCalls = 0
    /\ parallelJobsLock = NoOwner
    /\ pjpc = [t \in TaskIds |-> "idle"]
    /\ pjgot = [t \in TaskIds |-> NoChannel]
    /\ pjmax = [t \in TaskIds |-> 0]
    /\ cancelled = {}
    /\ entry = [c \in Callers |-> "none"]
    /\ ctx = [c \in Callers |-> NoCtx]
    /\ raisedMsg = [c \in Callers |-> <<>>]
    /\ tctx = [t \in TaskIds |-> NoCtx]
    /\ tread = [t \in TaskIds |-> <<>>]
    /\ rpc = [c \in Callers |-> "idle"]
    /\ ncalls = [c \in Callers |-> 0]
    /\ fnWrappers = [c \in Callers |-> <<>>]
    /\ spawned = [c \in Callers |-> 0]
    /\ wg = [c \in Callers |-> 0]
    /\ errs = [c \in Callers |-> <<>>]
    /\ mu = [c \in Callers |-> Unlocked]
    /\ nextTask = 1
    /\ tpc = [t \in TaskIds |-> "unborn"]
    /\ towner = [t \in TaskIds |-> NoOwner]
    /\ tcall = [t \in TaskIds |-> 0]
    /\ tfn = [t \in TaskIds |-> FnOk]

InitDocker ==
    /\ dockerHost \in DockerOutcomes
    /\ dockerInfoOnce \in BOOLEAN
    /\ dockerInfoValue = IF dockerInfoOnce THEN dockerHost.value ELSE NilInfo
    /\ dockerInfoErr = IF dockerInfoOnce THEN dockerHost.err ELSE FALSE

\* The docker outcomes of the hosts of the runner: no docker (capacity
\* runtime.NumCPU()), docker with no processor (capacity 0), docker with one
\* (capacity 1).
RunnerHosts ==
    {[value |-> NilInfo, err |-> TRUE], [value |-> Info(0), err |-> FALSE],
     [value |-> Info(1), err |-> FALSE]}

Init ==
    /\ maxParallelEnv \in RunnerEnvs
    /\ numCPU \in RunnerCPUs
    /\ goPanicNil \in BOOLEAN
    /\ dockerHost \in RunnerHosts
    /\ dockerInfoOnce = FALSE
    /\ dockerInfoValue = NilInfo
    /\ dockerInfoErr = FALSE
    /\ InitCalls

\* ---------------------------------------------------------------- strings.Join, errors.Errorf
\* strings.Join(elems, sep)
RECURSIVE Join(_, _)
Join(elems, sep) ==
    IF elems = <<>> THEN <<>>
    ELSE IF Len(elems) = 1 THEN elems[1]
    ELSE elems[1] \o sep \o Join(Tail(elems), sep)

FmtFlags == {"#", "0", "+", "-", " "}
FmtDigits == {"0", "1", "2", "3", "4", "5", "6", "7", "8", "9"}
NoVerbText == <<"%", "!", "(", "N", "O", "V", "E", "R", "B", ")">>
MissingText == <<"(", "M", "I", "S", "S", "I", "N", "G", ")">>

\* First position from i on whose character is not in set (Len(s) + 1 if none).
RECURSIVE SkipWhile(_, _, _)
SkipWhile(s, i, set) ==
    IF i <= Len(s) /\ s[i] \in set THEN SkipWhile(s, i + 1, set) ELSE i

\* Position of the first '%' of s from i on (Len(s) + 1 if none).
NextPercent(s, i) ==
    LET hits == {j \in i..Len(s) : s[j] = "%"}
    IN IF hits = {} THEN Len(s) + 1 ELSE CHOOSE j \in hits : \A k \in hits : j <= k

\* Position of the verb of the directive whose '%' is at i: after the flags,
\* the width and the precision (Len(s) + 1 if the text ends before it).
VerbAt(s, i) ==
    LET w == SkipWhile(s, SkipWhile(s, i + 1, FmtFlags), FmtDigits)
    IN IF w <= Len(s) /\ s[w] = "." THEN SkipWhile(s, w + 1, FmtDigits) ELSE w

\* fmt.Sprintf(format) with no operand, from position i: the text up to the
\* next '%' (at p) is copied; the directive at a '%' ends at its verb (at v):
\* "%%" gives "%", any other verb finds no operand, a missing verb is
\* reported. (No '*' and no '[' in the texts of Funcs.) p and v are
\* evaluated once, as values bound in a set.
RECURSIVE Sprintf(_, _)
Sprintf(format, i) ==
    IF i > Len(format) THEN <<>>
    ELSE CHOOSE text \in
             {IF p > i THEN SubSeq(format, i, p - 1) \o Sprintf(format, p)
              ELSE IF v > Len(format) THEN NoVerbText
              ELSE IF format[v] = "%" THEN <<"%">> \o Sprintf(format, v + 1)
              ELSE <<"%", "!", format[v]>> \o MissingText \o Sprintf(format, v + 1) :
                  p \in {NextPercent(format, i)}, v \in {VerbAt(format, i)}} : TRUE

\* errors.Errorf(format).Error(): the argument, evaluated once, is the format
\* string.
Errorf(format) == CHOOSE text \in {Sprintf(f, 1) : f \in {format}} : TRUE

\* ---------------------------------------------------------------- ParallelCtx: the caller
InvalidDepText ==
    <<"a", "t", "t", "e", "m", "p", "t", "e", "d", " ", "t", "o", " ", "a", "d", "d", " ",
      "a", " ", "d", "e", "p", " ", "t", "h", "a", "t", " ", "d", "i", "d", " ", "n", "o", "t", " ",
      "m", "a", "t", "c", "h", " ", "r", "e", "q", "u", "i", "r", "e", "d", " ",
      "f", "u", "n", "c", "t", "i", "o", "n", " ", "t", "y", "p", "e">>

\* Mutant: an element of no supported type is skipped.
Wrappable_SkipInvalid(f) == TRUE

\* types.FuncTypeWrap(f) != nil
Wrappable(f) == f.kind # "invalid"

\* The validation loop goes through all of fns.
AllWrappable(fns) == \A i \in 1..Len(fns) : Wrappable(fns[i])

\* fnWrappers when the validation loop ends: the wrappers appended before the
\* first element FuncTypeWrap refuses.
RECURSIVE Wrapped(_)
Wrapped(fns) ==
    IF fns = <<>> \/ ~Wrappable(Head(fns)) THEN <<>>
    ELSE <<Head(fns)>> \o Wrapped(Tail(fns))

\* The iterations the go-loops of the running invocations have still to do,
\* each of which starts a goroutine.
ToStart ==
    {p \in Callers \X (1..MaxTasks) :
        rpc[p[1]] = "run" /\ spawned[p[1]] < p[2] /\ p[2] <= Len(fnWrappers[p[1]])}

\* The body of ParallelCtx up to the go-loop, for the elements fns: the
\* validation loop, which panics at an element it cannot wrap, then fresh
\* mu / errs / wg.
Call(c, fns) ==
    /\ rpc[c] \in {"idle", "returned", "raised", "panicked"}
    /\ ncalls[c] + 1 \in CallNumbers
    /\ AllWrappable(fns) => nextTask + Cardinality(ToStart) + Len(fns) <= MaxTasks + 1
    /\ ncalls' = [ncalls EXCEPT ![c] = @ + 1]
    /\ fnWrappers' = [fnWrappers EXCEPT ![c] = Wrapped(fns)]
    /\ IF AllWrappable(fns)
       THEN /\ rpc' = [rpc EXCEPT ![c] = "run"]
            /\ spawned' = [spawned EXCEPT ![c] = 0]
            /\ wg' = [wg EXCEPT ![c] = 0]
            /\ errs' = [errs EXCEPT ![c] = <<>>]
            /\ mu' = [mu EXCEPT ![c] = Unlocked]
            /\ raisedMsg' = [raisedMsg EXCEPT ![c] = <<>>]
       ELSE /\ rpc' = [rpc EXCEPT ![c] = "panicked"]
            /\ raisedMsg' = [raisedMsg EXCEPT ![c] = InvalidDepText]
            /\ UNCHANGED <<spawned, wg, errs, mu>>
    /\ UNCHANGED <<hostVars, lockVars, cancelled, dockerVars, parallelJobsSemaphore,
                   numParallelCalls, nextTask, taskVars>>

\* ParallelCtx(ctx, fns...) entered by c with the context x.
ParallelCtx(c, x, fns) ==
    /\ Call(c, fns)
    /\ entry' = [entry EXCEPT ![c] = "ParallelCtx"]
    /\ ctx' = [ctx EXCEPT ![c] = x]

\* Mutant: Parallel hands on a context that can be cancelled.
ParallelContext_Cancellable == CallerCtx

\* The context Parallel passes: context.Background().
ParallelContext == Background

\* Parallel(fns...): ParallelCtx with the background context.
Parallel(c, fns) ==
    /\ Call(c, fns)
    /\ entry' = [entry EXCEPT ![c] = "Parallel"]
    /\ ctx' = [ctx EXCEPT ![c] = ParallelContext]

\* Mutant: fail fast, no further goroutine once a failure is recorded.
SpawnGuard_FailFast(c) == spawned[c] < Len(fnWrappers[c]) /\ errs[c] = <<>>

\* The go-loop may start the next goroutine.
SpawnGuard(c) == spawned[c] < Len(fnWrappers[c])

\* One iteration of the loop: wg.Add(1); go func(fw) {...}(fw).
Spawn(c) ==
    /\ rpc[c] = "run"
    /\ SpawnGuard(c)
    /\ nextTask \in TaskIds
    /\ wg' = [wg EXCEPT ![c] = @ + 1]
    /\ spawned' = [spawned EXCEPT ![c] = @ + 1]
    /\ tpc' = [tpc EXCEPT ![nextTask] = "start"]
    /\ towner' = [towner EXCEPT ![nextTask] = c]
    /\ tcall' = [tcall EXCEPT ![nextTask] = ncalls[c]]
    /\ tfn' = [tfn EXCEPT ![nextTask] = fnWrappers[c][spawned[c] + 1]]
    /\ nextTask' = nextTask + 1
    /\ UNCHANGED <<hostVars, lockVars, cancelled, dockerVars, parallelJobsSemaphore,
                   numParallelCalls, rpc, ncalls, fnWrappers, errs, mu, entry, ctx, raisedMsg,
                   tctx, tread>>

\* Mutant: the caller goes on as soon as one task is done.
WaitGuard_AnyDone(c) == wg[c] < Len(fnWrappers[c]) \/ wg[c] = 0

\* Mutant: the caller waits for a Done even when it has started no goroutine.
WaitGuard_NeedsDone(c) == wg[c] = 0 /\ spawned[c] > 0

\* wg.Wait() lets the caller through.
WaitGuard(c) == wg[c] = 0

\* Mutant: len(errs) >= 0.
Raises_Always(es) == Len(es) >= 0

\* len(errs) > 0: the call panics with the joined messages.
Raises(es) == Len(es) > 0

\* wg.Wait(); if len(errs) > 0 { panic(...) }.
Wait(c) ==
    /\ rpc[c] = "run"
    /\ spawned[c] = Len(fnWrappers[c])
    /\ WaitGuard(c)
    /\ rpc' = [rpc EXCEPT ![c] = IF Raises(errs[c]) THEN "raised" ELSE "returned"]
    /\ raisedMsg' = [raisedMsg EXCEPT ![c] =
                       IF Raises(errs[c]) THEN Errorf(Join(errs[c], <<"\n">>)) ELSE <<>>]
    /\ UNCHANGED <<hostVars, lockVars, cancelled, dockerVars, parallelJobsSemaphore,
                   numParallelCalls, ncalls, fnWrappers, spawned, wg, errs, mu, nextTask,
                   entry, ctx, taskVars>>

\* ---------------------------------------------------------------- ParallelCtx: one task goroutine
taskRest ==
    <<hostVars, lockVars, cancelled, rpc, ncalls, fnWrappers, spawned, nextTask, entry, ctx,
      raisedMsg, towner, tcall, tfn>>

\* Position after parallelJobs() has returned: the send, or the receive.
AfterParallelJobs(pc) == IF pc = "start" THEN "send" ELSE "receive"

\* parallelJobs() evaluated for the send (line 539) or for the deferred
\* receive (line 536); the lock is taken and released within the call.
TaskCallParallelJobs(t) ==
    /\ tpc[t] \in {"start", "release"}
    /\ parallelJobsSemaphore' = ParallelJobs.sem
    /\ dockerInfoOnce' = ParallelJobs.once
    /\ dockerInfoValue' = ParallelJobs.value
    /\ dockerInfoErr' = ParallelJobs.err
    /\ numParallelCalls' = ParallelJobs.calls
    /\ tpc' = [tpc EXCEPT ![t] = AfterParallelJobs(tpc[t])]
    /\ UNCHANGED <<taskRest, wg, errs, mu, tctx, tread>>

\* Mutant: one token too many is let in.
CanSend_OffByOne(ch) == ch.len <= ch.cap

\* Mutant: the send never waits for room.
CanSend_NoLimit(ch) == ch.made

\* The channel send can complete: a buffered channel with room (nobody receives
\* from the channel before having sent, so an unbuffered send finds no receiver).
CanSend(ch) == ch.len < ch.cap

\* parallelJobs() <- 1
TaskSend(t) ==
    /\ tpc[t] = "send"
    /\ CanSend(parallelJobsSemaphore)
    /\ parallelJobsSemaphore' = [parallelJobsSemaphore EXCEPT !.len = @ + 1]
    /\ tpc' = [tpc EXCEPT ![t] = "body"]
    /\ UNCHANGED <<taskRest, dockerVars, numParallelCalls, wg, errs, mu, tctx, tread>>

\* Position after fw(ctx) has ended.
AfterBody(fn) == IF fn.kind = "err" THEN "errlock" ELSE "defer"

\* Position after fw(x) has ended, for a function that returns x.Err().
BodyEnd(fn, x, done) ==
    IF fn.kind = "ctx" THEN (IF x \in done THEN "errlock" ELSE "defer") ELSE AfterBody(fn)

\* fw(ctx) runs and ends: nil, an error, or a panic.
TaskBody(t) ==
    /\ tpc[t] = "body"
    /\ tfn[t].kind # "nested"
    /\ tpc' = [tpc EXCEPT ![t] = BodyEnd(tfn[t], ctx[towner[t]], cancelled)]
    /\ tctx' = [tctx EXCEPT ![t] = ctx[towner[t]]]
    /\ UNCHANGED <<taskRest, dockerVars, parallelJobsSemaphore, numParallelCalls, wg, errs, mu,
                   tread>>

\* Mutant: the mutex does not exclude.
CanLock_NoMutex(m) == TRUE

\* mu.Lock() can return.
CanLock(m) == m = Unlocked

\* mu.Lock() of either append; the append that follows reads errs.
TaskLock(t) ==
    /\ tpc[t] \in {"errlock", "reclock"}
    /\ CanLock(mu[towner[t]])
    /\ mu' = [mu EXCEPT ![towner[t]] = t]
    /\ tread' = [tread EXCEPT ![t] = errs[towner[t]]]
    /\ tpc' = [tpc EXCEPT ![t] = IF tpc[t] = "errlock" THEN "errappend" ELSE "recappend"]
    /\ UNCHANGED <<taskRest, dockerVars, parallelJobsSemaphore, numParallelCalls, wg, errs,
                   tctx>>

\* errs = append(errs, fmt.Sprint(err)); mu.Unlock()
TaskAppendErr(t) ==
    /\ tpc[t] = "errappend"
    /\ errs' = [errs EXCEPT ![towner[t]] = Append(tread[t], Sprint(tfn[t].val))]
    /\ tread' = [tread EXCEPT ![t] = <<>>]
    /\ mu' = [mu EXCEPT ![towner[t]] = Unlocked]
    /\ tpc' = [tpc EXCEPT ![t] = "defer"]
    /\ UNCHANGED <<taskRest, dockerVars, parallelJobsSemaphore, numParallelCalls, wg, tctx>>

\* Deferred function: if v := recover(); v != nil {...}
TaskRecover(t) ==
    /\ tpc[t] = "defer"
    /\ tpc' = [tpc EXCEPT ![t] =
                 IF Recover(tfn[t], goPanicNil) # NilValue THEN "reclock" ELSE "done"]
    /\ UNCHANGED <<taskRest, dockerVars, parallelJobsSemaphore, numParallelCalls, wg, errs, mu,
                   tctx, tread>>

\* errs = append(errs, fmt.Sprint(v)); mu.Unlock()
TaskAppendRec(t) ==
    /\ tpc[t] = "recappend"
    /\ errs' = [errs EXCEPT ![towner[t]] =
                  Append(tread[t], Sprint(Recover(tfn[t], goPanicNil)))]
    /\ tread' = [tread EXCEPT ![t] = <<>>]
    /\ mu' = [mu EXCEPT ![towner[t]] = Unlocked]
    /\ tpc' = [tpc EXCEPT ![t] = "done"]
    /\ UNCHANGED <<taskRest, dockerVars, parallelJobsSemaphore, numParallelCalls, wg, tctx>>

\* Mutant: the receive is not deferred, a panicking task skips it.
AfterDone_NoReleaseOnPanic(fn) == IF fn.kind = "panic" THEN "exit" ELSE "release"

\* Mutant: a task that returned an error leaves without the receive.
AfterDone_NoReleaseOnError(fn) == IF fn.kind = "err" THEN "exit" ELSE "release"

\* The deferred function goes on to the receive whatever fw did.
AfterDone(fn) == "release"

\* wg.Done()
TaskDone(t) ==
    /\ tpc[t] = "done"
    /\ wg' = [wg EXCEPT ![towner[t]] = @ - 1]
    /\ tpc' = [tpc EXCEPT ![t] = AfterDone(tfn[t])]
    /\ UNCHANGED <<taskRest, dockerVars, parallelJobsSemaphore, numParallelCalls, errs, mu,
                   tctx, tread>>

\* The channel receive can complete.
CanReceive(ch) == ch.len > 0

\* The receive of "<-parallelJobs()", on the channel the call returned.
TaskRelease(t) ==
    /\ tpc[t] = "receive"
    /\ CanReceive(parallelJobsSemaphore)
    /\ parallelJobsSemaphore' = [parallelJobsSemaphore EXCEPT !.len = @ - 1]
    /\ tpc' = [tpc EXCEPT ![t] = "exit"]
    /\ UNCHANGED <<taskRest, dockerVars, numParallelCalls, wg, errs, mu, tctx, tread>>

\* ---------------------------------------------------------------- other users
\* HaveDocker(): GetDockerInfo() called outside the runner.
HaveDocker ==
    LET info == GetDockerInfo(dockerInfoOnce, dockerInfoValue, dockerInfoErr, dockerHost)
    IN /\ ~dockerInfoOnce
       /\ dockerInfoOnce' = info.once
       /\ dockerInfoValue' = info.value
       /\ dockerInfoErr' = info.err
       /\ UNCHANGED <<hostVars, lockVars, cancelled, parallelJobsSemaphore, numParallelCalls,
                      callVars, taskVars>>

\* The first parallelJobs() of the process, seen on its own.
FirstParallelJobs ==
    /\ parallelJobsSemaphore = NilChan
    /\ parallelJobsSemaphore' = ParallelJobs.sem
    /\ dockerInfoOnce' = ParallelJobs.once
    /\ dockerInfoValue' = ParallelJobs.value
    /\ dockerInfoErr' = ParallelJobs.err
    /\ numParallelCalls' = ParallelJobs.calls
    /\ UNCHANGED <<hostVars, lockVars, cancelled, callVars, taskVars>>

\* ---------------------------------------------------------------- specifications
FnLists == UNION {[1..n -> Funcs] : n \in 0..MaxTasks}

TaskStep(t) ==
    \/ TaskCallParallelJobs(t)
    \/ TaskSend(t)
    \/ TaskBody(t)
    \/ TaskLock(t)
    \/ TaskAppendErr(t)
    \/ TaskRecover(t)
    \/ TaskAppendRec(t)
    \/ TaskDone(t)
    \/ TaskRelease(t)

Next ==
    \/ \E c \in MainCallers : \E fns \in FnLists : ParallelCtx(c, CallerCtx, fns)
    \/ \E c \in MainCallers : Spawn(c)
    \/ \E c \in MainCallers : Wait(c)
    \/ \E t \in TaskIds : TaskStep(t)

Spec == Init /\ [][Next]_vars

\* A goroutine that can run is eventually run; nothing obliges a caller to call.
Fairness ==
    /\ \A c \in MainCallers : WF_vars(Spawn(c) \/ Wait(c))
    /\ \A t \in TaskIds : WF_vars(TaskStep(t))

FairSpec == Init /\ [][Next]_vars /\ Fairness

\* ---------------------------------------------------------------- parallelJobs(), step by step
\* Mutant: parallelJobs does not take parallelJobsLock.
CanLockJobs_NoLock(holder) == TRUE

\* parallelJobsLock.Lock() can return.
CanLockJobs(holder) == holder = NoOwner

\* parallelJobsLock.Lock(), in the parallelJobs() of "parallelJobs() <- 1" and
\* of "<-parallelJobs()".
PJLock(t) ==
    /\ tpc[t] \in {"start", "release"}
    /\ pjpc[t] = "idle"
    /\ CanLockJobs(parallelJobsLock)
    /\ parallelJobsLock' = t
    /\ pjpc' = [pjpc EXCEPT ![t] = "locked"]
    /\ UNCHANGED <<hostVars, dockerVars, parallelJobsSemaphore, numParallelCalls, pjgot,
                   pjmax, cancelled, callVars, taskVars>>

\* if parallelJobsSemaphore == nil
PJCheck(t) ==
    /\ pjpc[t] = "locked"
    /\ pjpc' = [pjpc EXCEPT ![t] = IF parallelJobsSemaphore = NilChan THEN "init" ELSE "unlock"]
    /\ UNCHANGED <<hostVars, dockerVars, parallelJobsSemaphore, numParallelCalls,
                   parallelJobsLock, pjgot, pjmax, cancelled, callVars, taskVars>>

\* numParallel() is entered and reads MAX_PARALLEL: a usable number is its
\* result; otherwise maxParallel := runtime.NumCPU() and docker is asked next.
PJGetenv(t) ==
    /\ pjpc[t] = "init"
    /\ numParallelCalls' = numParallelCalls + 1
    /\ pjmax' = [pjmax EXCEPT ![t] =
                   IF NumParallelAsksDocker(maxParallelEnv) THEN numCPU
                   ELSE Atoi(maxParallelEnv).n]
    /\ pjpc' = [pjpc EXCEPT ![t] =
                  IF NumParallelAsksDocker(maxParallelEnv) THEN "docker" ELSE "make"]
    /\ UNCHANGED <<hostVars, dockerVars, parallelJobsSemaphore, parallelJobsLock, pjgot,
                   cancelled, callVars, taskVars>>

\* info, err := GetDockerInfo(), with the docker there is when it answers, and
\* the comparison with maxParallel.
PJDocker(t) ==
    /\ pjpc[t] = "docker"
    /\ LET info == GetDockerInfo(dockerInfoOnce, dockerInfoValue, dockerInfoErr, dockerHost)
       IN /\ dockerInfoOnce' = info.once
          /\ dockerInfoValue' = info.value
          /\ dockerInfoErr' = info.err
          /\ pjmax' = [pjmax EXCEPT ![t] = NumParallelDefault(pjmax[t], info)]
    /\ pjpc' = [pjpc EXCEPT ![t] = "make"]
    /\ UNCHANGED <<hostVars, parallelJobsSemaphore, numParallelCalls, parallelJobsLock, pjgot,
                   cancelled, callVars, taskVars>>

\* parallelJobsSemaphore = make(chan int, max)
PJMake(t) ==
    /\ pjpc[t] = "make"
    /\ parallelJobsSemaphore' = MakeChan(pjmax[t])
    /\ pjpc' = [pjpc EXCEPT ![t] = "unlock"]
    /\ UNCHANGED <<hostVars, dockerVars, numParallelCalls, parallelJobsLock, pjgot, pjmax,
                   cancelled, callVars, taskVars>>

\* return parallelJobsSemaphore, and the deferred parallelJobsLock.Unlock().
PJReturn(t) ==
    /\ pjpc[t] = "unlock"
    /\ pjgot' = [pjgot EXCEPT ![t] =
                   [gen |-> numParallelCalls, cap |-> parallelJobsSemaphore.cap]]
    /\ parallelJobsLock' = NoOwner
    /\ pjpc' = [pjpc EXCEPT ![t] = "idle"]
    /\ tpc' = [tpc EXCEPT ![t] = AfterParallelJobs(tpc[t])]
    /\ UNCHANGED <<hostVars, dockerVars, parallelJobsSemaphore, numParallelCalls, pjmax,
                   cancelled, callVars, towner, tcall, tfn, tctx, tread>>

\* os.Setenv("MAX_PARALLEL", e) somewhere in the process.
Setenv(e) ==
    /\ maxParallelEnv # e
    /\ maxParallelEnv' = e
    /\ UNCHANGED <<numCPU, goPanicNil, dockerHost, dockerVars, parallelJobsSemaphore,
                   numParallelCalls, lockVars, cancelled, callVars, taskVars>>

\* The docker daemon starts, stops, or is given another number of processors.
DockerChange(h) ==
    /\ dockerHost # h
    /\ dockerHost' = h
    /\ UNCHANGED <<maxParallelEnv, numCPU, goPanicNil, dockerVars, parallelJobsSemaphore,
                   numParallelCalls, lockVars, cancelled, callVars, taskVars>>

\* The values MAX_PARALLEL is set to.
OnceEnvs == {<<>>, <<"1">>}
\* The docker outcomes the daemon changes to.
OnceHosts == {[value |-> NilInfo, err |-> TRUE], [value |-> Info(1), err |-> FALSE]}

\* The steps of a task other than its two calls of parallelJobs().
TaskStepLocked(t) ==
    \/ TaskSend(t)
    \/ TaskBody(t)
    \/ TaskLock(t)
    \/ TaskAppendErr(t)
    \/ TaskRecover(t)
    \/ TaskAppendRec(t)
    \/ TaskDone(t)
    \/ TaskRelease(t)

NextOnce ==
    \/ \E fns \in FnLists : ncalls[Main] = 0 /\ ParallelCtx(Main, CallerCtx, fns)
    \/ Spawn(Main)
    \/ Wait(Main)
    \/ \E t \in TaskIds : PJLock(t) \/ PJCheck(t) \/ PJReturn(t)
    \/ \E t \in TaskIds : PJGetenv(t) \/ PJDocker(t) \/ PJMake(t)
    \/ \E t \in TaskIds : TaskStepLocked(t)
    \/ \E e \in OnceEnvs : Setenv(e)
    \/ \E h \in OnceHosts : DockerChange(h)

SpecOnce == Init /\ [][NextOnce]_vars

\* ---------------------------------------------------------------- Parallel and ParallelCtx
\* The contexts that have a cancel function; context.Background() has none.
Cancellable == {CallerCtx}

\* cancel() of the context x, anywhere in the process.
Cancel(x) ==
    /\ x \notin cancelled
    /\ cancelled' = cancelled \cup {x}
    /\ UNCHANGED <<hostVars, dockerVars, parallelJobsSemaphore, numParallelCalls, lockVars,
                   callVars, taskVars>>

\* Functions that succeed, that fail by themselves, and that fail when their
\* context is cancelled.
ParFuncs == {FnOk, FnCtx} \cup MultiFuncs
ParFnLists == UNION {[1..n -> ParFuncs] : n \in 0..MaxTasks}

NextPar ==
    \/ \E fns \in ParFnLists : ncalls[Main] = 0 /\ Parallel(Main, fns)
    \/ \E fns \in ParFnLists : \E x \in {Background, CallerCtx} :
            ncalls[Main] = 0 /\ ParallelCtx(Main, x, fns)
    \/ Spawn(Main)
    \/ Wait(Main)
    \/ \E t \in TaskIds : TaskStep(t)
    \/ \E x \in Cancellable : Cancel(x)

SpecPar == Init /\ [][NextPar]_vars

\* ---------------------------------------------------------------- a task body that calls Parallel
\* fw(ctx) of FnNested reaches its call Parallel(NestedFns...): the task
\* goroutine becomes a caller, still holding its token.
TaskBodyCall(t) ==
    /\ tpc[t] = "body"
    /\ tfn[t].kind = "nested"
    /\ rpc[t] = "idle"
    /\ Parallel(t, NestedFns)

\* The inner Parallel has returned (NestedFns do not fail, it never raises),
\* and with it fw(ctx).
TaskBodyReturn(t) ==
    /\ tpc[t] = "body"
    /\ tfn[t].kind = "nested"
    /\ rpc[t] = "returned"
    /\ tpc' = [tpc EXCEPT ![t] = "defer"]
    /\ tctx' = [tctx EXCEPT ![t] = ctx[towner[t]]]
    /\ UNCHANGED <<taskRest, dockerVars, parallelJobsSemaphore, numParallelCalls, wg, errs, mu,
                   tread>>

\* Lists of plain and nesting functions for which the goroutine ids suffice.
NestFuncs == Funcs \cup {FnNested}
NestFnLists ==
    {fns \in UNION {[1..n -> NestFuncs] : n \in 0..MaxTasks} :
        Len(fns) + Cardinality({i \in 1..Len(fns) : fns[i] = FnNested}) * Len(NestedFns)
            <= MaxTasks}

NextNest ==
    \/ \E fns \in NestFnLists : ncalls[Main] = 0 /\ ParallelCtx(Main, CallerCtx, fns)
    \/ \E c \in MainCallers \cup TaskIds : Spawn(c)
    \/ \E c \in MainCallers \cup TaskIds : Wait(c)
    \/ \E t \in TaskIds : TaskStep(t)
    \/ \E t \in TaskIds : TaskBodyCall(t)
    \/ \E t \in TaskIds : TaskBodyReturn(t)

\* Every goroutine that can run is eventually run, callers inside bodies too.
FairnessNest ==
    /\ \A c \in MainCallers \cup TaskIds : WF_vars(Spawn(c) \/ Wait(c))
    /\ \A t \in TaskIds : WF_vars(TaskStep(t) \/ TaskBodyCall(t) \/ TaskBodyReturn(t))

FairSpecNest == Init /\ [][NextNest]_vars /\ FairnessNest

\* ---------------------------------------------------------------- two goroutines calling ParallelCtx
\* The goroutines that call ParallelCtx at the same time, once each.
MultiCallers == {Main, Other}
MultiFnLists == UNION {[1..n -> MultiFuncs] : n \in 0..MaxTasks}

NextMulti ==
    \/ \E c \in MultiCallers : \E fns \in MultiFnLists :
            ncalls[c] = 0 /\ ParallelCtx(c, CallerCtx, fns)
    \/ \E c \in MultiCallers : Spawn(c)
    \/ \E c \in MultiCallers : Wait(c)
    \/ \E t \in TaskIds : TaskStep(t)

\* A host without docker (capacity runtime.NumCPU()) or with a docker of one
\* processor (capacity 1).
InitTwoHosts ==
    /\ maxParallelEnv \in RunnerEnvs
    /\ numCPU \in RunnerCPUs
    /\ goPanicNil = TRUE
    /\ dockerHost \in OnceHosts
    /\ dockerInfoOnce = FALSE
    /\ dockerInfoValue = NilInfo
    /\ dockerInfoErr = FALSE
    /\ InitCalls

SpecMulti == InitTwoHosts /\ [][NextMulti]_vars

\* ---------------------------------------------------------------- elements FuncTypeWrap refuses
\* Functions that fail, and a value that is no task function.
AnyFuncs == MultiFuncs \cup {FnInvalid}
AnyFnLists == UNION {[1..n -> AnyFuncs] : n \in 0..MaxTasks}

NextValid ==
    \/ \E fns \in AnyFnLists : ParallelCtx(Main, CallerCtx, fns)
    \/ Spawn(Main)
    \/ Wait(Main)
    \/ \E t \in TaskIds : TaskStep(t)

SpecValid == InitTwoHosts /\ [][NextValid]_vars

\* numParallel over every MAX_PARALLEL string, processor count and docker outcome.
RECURSIVE StringsOfLen(_)
StringsOfLen(n) ==
    IF n = 0 THEN {<<>>}
    ELSE {Append(s, ch) : s \in StringsOfLen(n - 1), ch \in EnvAlphabet}
EnvStrings == UNION {StringsOfLen(n) : n \in 0..MaxEnvLen}

InitNum ==
    /\ maxParallelEnv \in EnvStrings
    /\ numCPU \in CPUCounts
    /\ goPanicNil = TRUE
    /\ InitDocker
    /\ InitCalls

NextNum == HaveDocker \/ FirstParallelJobs

SpecNum == InitNum /\ [][NextNum]_vars

\* ---------------------------------------------------------------- vocabulary of the properties
\* Goroutines started by the current invocation of c.
CurrentTasks(c) == {t \in TaskIds : towner[t] = c /\ tcall[t] = ncalls[c]}
\* fw(ctx) is executing in t.
Executing(t) == tpc[t] = "body"
\* fw(ctx) has ended in t.
BodyFinished(t) ==
    tpc[t] \in {"errlock", "errappend", "defer", "reclock", "recappend", "done", "release",
              "receive", "exit"}
\* The function fails: it returns an error or panics.
Fails(fn) == fn.kind \in {"err", "panic"}
\* Positions in fns of the functions that fail.
FailingIn(fns) == {i \in 1..Len(fns) : Fails(fns[i])}
\* The call of c is over.
Over(c) == rpc[c] \in {"returned", "raised"}
\* All the functions of the current invocation of c have run to their end.
AllFinished(c) ==
    /\ Cardinality(CurrentTasks(c)) = Len(fnWrappers[c])
    /\ \A t \in CurrentTasks(c) : BodyFinished(t)
\* Some task of the current invocation of c has failed already.
SomeFailed(c) == \E t \in CurrentTasks(c) : BodyFinished(t) /\ Fails(tfn[t])

\* Decimal reading of a string, independent of Atoi: digits weighted from the right.
IsDigit(ch) == ch \in {"0", "1", "2", "3", "4", "5", "6", "7", "8", "9"}
DigitOf(ch) == CHOOSE d \in 0..9 : ch = <<"0", "1", "2", "3", "4", "5", "6", "7", "8", "9">>[d + 1]
RECURSIVE Pow10(_)
Pow10(k) == IF k = 0 THEN 1 ELSE 10 * Pow10(k - 1)
RECURSIVE WeightedSum(_, _)
WeightedSum(s, i) ==
    IF i > Len(s) THEN 0 ELSE DigitOf(s[i]) * Pow10(Len(s) - i) + WeightedSum(s, i + 1)
Unsigned(s) == IF s # <<>> /\ s[1] \in {"+", "-"} THEN SubSeq(s, 2, Len(s)) ELSE s
IsInteger(s) == Unsigned(s) # <<>> /\ \A i \in 1..Len(Unsigned(s)) : IsDigit(Unsigned(s)[i])
IntegerOf(s) ==
    IF s[1] = "-" THEN 0 - WeightedSum(Unsigned(s), 1) ELSE WeightedSum(Unsigned(s), 1)
\* MAX_PARALLEL is a usable override.
UsableOverride == IsInteger(maxParallelEnv) /\ IntegerOf(maxParallelEnv) > 0

\* ---------------------------------------------------------------- C1
\* C1: at any time the number of tasks whose fw(ctx) is executing is at most the
\* tokens in the semaphore, which is at most its capacity: a body runs only
\* between its task's send and its task's receive.
C1_AtMostCapExecuting ==
    LET running == {t \in TaskIds : Executing(t)}
    IN /\ Cardinality(running) <= parallelJobsSemaphore.len
       /\ parallelJobsSemaphore.len <= parallelJobsSemaphore.cap

\* The cap is reached while another task waits for a slot.
C1_Witness ==
    /\ parallelJobsSemaphore.cap = 1
    /\ \E t, u \in TaskIds : Executing(t) /\ tpc[u] = "send"

\* ---------------------------------------------------------------- C2
\* C2: when ParallelCtx has returned or raised, each of its N functions has been
\* started and has run to its end; none waits for a slot or still executes.
C2_ReturnsAfterAllFinished == \A c \in Callers : Over(c) => AllFinished(c)

\* A call of two tasks raised: one failed, the other succeeded.
C2_Witness ==
    \E c \in Callers :
        /\ rpc[c] = "raised"
        /\ Len(fnWrappers[c]) >= 2
        /\ \E t, u \in CurrentTasks(c) : Fails(tfn[t]) /\ ~Fails(tfn[u])

\* ---------------------------------------------------------------- C3
\* C3: a call with K >= 1 failing functions (error return or panic) ends raised,
\* with exactly K messages collected.
C3_KFailuresKMessages ==
    \A c \in Callers :
        (Over(c) /\ FailingIn(fnWrappers[c]) # {}) =>
            /\ rpc[c] = "raised"
            /\ Len(errs[c]) = Cardinality(FailingIn(fnWrappers[c]))

\* ---------------------------------------------------------------- C4
\* C4: a call whose functions all succeed ends returned, with nothing collected.
C4_AllSucceedReturns ==
    \A c \in Callers :
        (Over(c) /\ FailingIn(fnWrappers[c]) = {}) => (rpc[c] = "returned" /\ errs[c] = <<>>)

\* A call of more tasks than slots, all succeeding, has returned.
C4_Witness ==
    \E c \in Callers :
        /\ rpc[c] = "returned"
        /\ Len(fnWrappers[c]) >= 2
        /\ Len(fnWrappers[c]) > parallelJobsSemaphore.cap
        /\ parallelJobsSemaphore.cap >= 1

\* ---------------------------------------------------------------- C5
\* C5: a call in progress can always go on: some goroutine of the program can
\* take a step, so under fair scheduling the call comes to its end.
C5_CallNeverStuck ==
    (\E c \in Callers : rpc[c] = "run") =>
        ENABLED (\/ \E c \in Callers : Spawn(c) \/ Wait(c)
                 \/ \E t \in TaskIds : TaskStep(t))

\* ---------------------------------------------------------------- C6
\* C6: once a task of a call has failed, every function of that same call is
\* still started and still runs to its end.
C6_FailureDoesNotStopOthers ==
    \A c \in MainCallers : \A k \in CallNumbers :
        (ncalls[c] = k /\ rpc[c] = "run" /\ SomeFailed(c))
            ~> (ncalls[c] = k /\ AllFinished(c))

\* A task succeeded in a call in which another task had failed.
C6_Witness ==
    \E c \in Callers :
        /\ AllFinished(c)
        /\ \E t, u \in CurrentTasks(c) : t < u /\ Fails(tfn[t]) /\ ~Fails(tfn[u])
        /\ Len(errs[c]) = 1

\* ---------------------------------------------------------------- C7
\* No started task is before the end of its function.
NoTaskPending == \A t \in TaskIds : tpc[t] \notin {"start", "send", "body"}
\* Every started task has done its deferred receive.
AllExited == \A t \in TaskIds : tpc[t] \in {"unborn", "exit"}

\* C7: whenever no task is before the end of its function, the semaphore
\* eventually holds no token; and it holds none once every task has exited.
C7_SlotsReleased ==
    /\ [](AllExited => parallelJobsSemaphore.len = 0)
    /\ (NoTaskPending ~> parallelJobsSemaphore.len = 0)

\* All three outcomes have been through the release.
C7_Witness ==
    /\ AllExited
    /\ parallelJobsSemaphore.len = 0
    /\ \E t, u \in TaskIds :
          /\ tpc[t] = "exit" /\ tpc[u] = "exit"
          /\ tfn[t].kind = "panic" /\ tfn[u].kind # "panic"

\* ---------------------------------------------------------------- C8
\* C8: the capacity of the semaphore parallelJobs creates is at least 1.
C8_CapPositive == parallelJobsSemaphore.made => parallelJobsSemaphore.cap >= 1

\* ---------------------------------------------------------------- C9
\* C9: a MAX_PARALLEL that reads as an integer > 0 is the capacity; any other
\* MAX_PARALLEL gives the capacity an unset MAX_PARALLEL gives.
C9_OverrideWins ==
    parallelJobsSemaphore.made =>
        parallelJobsSemaphore.cap =
            IF UsableOverride THEN IntegerOf(maxParallelEnv)
            ELSE NumParallel(<<>>, numCPU, dockerHost)

\* An override decided the capacity against the default; a zero did not.
C9_Witness ==
    /\ parallelJobsSemaphore.made
    /\ maxParallelEnv = <<"+", "2">>
    /\ numCPU = 1
    /\ parallelJobsSemaphore.cap = 2

\* ---------------------------------------------------------------- C10
\* C10: without a usable override the capacity is the smaller of the local
\* processor count and docker's NCPU when docker info is there, and the local
\* processor count when it is not.
C10_DefaultIsMin ==
    (parallelJobsSemaphore.made /\ ~UsableOverride) =>
        IF dockerHost.err
        THEN parallelJobsSemaphore.cap = numCPU
        ELSE /\ parallelJobsSemaphore.cap <= numCPU
             /\ parallelJobsSemaphore.cap <= dockerHost.value.NCPU
             /\ parallelJobsSemaphore.cap \in {numCPU, dockerHost.value.NCPU}

\* Docker reported fewer processors than the host has, with an unusable override.
C10_Witness ==
    /\ parallelJobsSemaphore.made
    /\ maxParallelEnv = <<"-", "2">>
    /\ ~dockerHost.err
    /\ dockerHost.value.NCPU = 1
    /\ numCPU = 2
    /\ parallelJobsSemaphore.cap = 1

\* ---------------------------------------------------------------- C11
\* The capacity numParallel would give if it were evaluated now.
CapacityNow ==
    NumParallel(maxParallelEnv, numCPU,
                IF dockerInfoOnce THEN [value |-> dockerInfoValue, err |-> dockerInfoErr]
                ELSE [value |-> dockerHost.value, err |-> dockerHost.err])

\* C11: the semaphore is created at most once per process: under every
\* interleaving of concurrent first calls of parallelJobs, numParallel is
\* evaluated at most once, all the calls return the same channel, the channel
\* the package holds, and once made the channel is never replaced and its
\* capacity never changes, whatever happens to MAX_PARALLEL and to docker.
C11_CreatedOnce ==
    /\ [](/\ numParallelCalls <= 1
          /\ \A t \in TaskIds :
                pjgot[t] # NoChannel =>
                    /\ parallelJobsSemaphore.made
                    /\ pjgot[t] = [gen |-> 1, cap |-> parallelJobsSemaphore.cap])
    /\ [][parallelJobsSemaphore.made =>
            /\ parallelJobsSemaphore'.made
            /\ parallelJobsSemaphore'.cap = parallelJobsSemaphore.cap
            /\ numParallelCalls' = numParallelCalls]_vars

\* Two tasks have called parallelJobs, and by now numParallel would give
\* another capacity than the one the channel has.
C11_Witness ==
    /\ \E t, u \in TaskIds : t # u /\ pjgot[t] # NoChannel /\ pjgot[u] # NoChannel
    /\ parallelJobsSemaphore.made
    /\ CapacityNow # parallelJobsSemaphore.cap

\* ---------------------------------------------------------------- C12
\* C12: with zero tasks ParallelCtx returns normally at once: while it runs
\* the go-loop has nothing to start, no goroutine of the call exists (so no
\* slot is acquired for it), wg.Wait() lets the caller through without any
\* other step, errs is empty, and the call ends by returning, never by raising.
C12_ZeroTasksReturn ==
    \A c \in Callers :
        Len(fnWrappers[c]) = 0 =>
            /\ rpc[c] = "run" =>
                    /\ ~ENABLED Spawn(c)
                    /\ ENABLED Wait(c)
                    /\ CurrentTasks(c) = {}
                    /\ errs[c] = <<>>
            /\ Over(c) => rpc[c] = "returned" /\ CurrentTasks(c) = {}

\* A call with zero tasks has returned while a task of the call before it
\* still holds a token.
C12_Witness ==
    /\ rpc[Main] = "returned"
    /\ Len(fnWrappers[Main]) = 0
    /\ ncalls[Main] = 2
    /\ parallelJobsSemaphore.len > 0

\* ---------------------------------------------------------------- C13
\* C13: when a call raises, the message of the failure it raises is exactly
\* the recorded messages, in the order of their recording, joined by single
\* newline characters: every message appears in it unaltered.
C13_MessagesJoinedUnaltered ==
    \A c \in Callers :
        rpc[c] = "raised" => raisedMsg[c] = Join(errs[c], <<"\n">>)

\* ---------------------------------------------------------------- C14
\* The function records a failure whatever its context: it returns an error,
\* or it panics with a value recover() returns.
Records(fn) ==
    \/ fn.kind = "err"
    \/ fn.kind = "panic" /\ Recover(fn, goPanicNil) # NilValue
\* What a call of ParallelCtx with the background context gives once it is
\* over: every task ran with the background context, failures are recorded of
\* the functions that fail by themselves and of no other, and the call raises
\* iff there is one.
BackgroundOutcome(c) ==
    /\ \A t \in CurrentTasks(c) : BodyFinished(t) /\ tctx[t] = Background
    /\ Cardinality(CurrentTasks(c)) = Len(fnWrappers[c])
    /\ Len(errs[c]) =
           Cardinality({i \in 1..Len(fnWrappers[c]) : Records(fnWrappers[c][i])})
    /\ rpc[c] = "raised" <=> \E i \in 1..Len(fnWrappers[c]) : Records(fnWrappers[c][i])

\* C14: Parallel(fns) behaves as ParallelCtx(background context, fns): the
\* call it makes has the background context, which is never cancelled, every
\* task body is handed that context, and when the call is over its tasks and
\* its outcome are those of ParallelCtx with the background context.
C14_ParallelIsBackgroundCtx ==
    /\ Background \notin cancelled
    /\ \A c \in Callers :
          /\ entry[c] = "Parallel" =>
                /\ ctx[c] = Background
                /\ \A t \in CurrentTasks(c) : BodyFinished(t) => tctx[t] = Background
          /\ entry[c] \in {"Parallel", "ParallelCtx"} /\ ctx[c] = Background /\ Over(c) =>
                BackgroundOutcome(c)

\* Parallel has returned after running a function that looks at its context,
\* while the caller's other context was cancelled.
C14_Witness ==
    /\ entry[Main] = "Parallel"
    /\ rpc[Main] = "returned"
    /\ \E t \in CurrentTasks(Main) : tfn[t] = FnCtx
    /\ CallerCtx \in cancelled

\* ---------------------------------------------------------------- C15
\* No invocation but the current one of c has a goroutine left or is running.
OnlyInvocation(c) ==
    /\ \A d \in Callers \ {c} : rpc[d] # "run"
    /\ \A t \in TaskIds \ CurrentTasks(c) : tpc[t] \in {"unborn", "exit"}

\* C15: when ParallelCtx has returned or raised, every slot its tasks acquired
\* has been released: if no other invocation is active, the semaphore holds
\* zero tokens in the states in which the caller has resumed.
C15_NoTokenAtReturn ==
    \A c \in Callers :
        Over(c) /\ OnlyInvocation(c) => parallelJobsSemaphore.len = 0

\* ---------------------------------------------------------------- C16
\* C16: nested use terminates: when task bodies call Parallel themselves and
\* the innermost bodies all end, a running outer call is eventually over,
\* for every capacity >= 1 of the semaphore.
C16_NestedTerminates ==
    (rpc[Main] = "run" /\ parallelJobsSemaphore.made /\ parallelJobsSemaphore.cap >= 1)
        ~> Over(Main)

\* ---------------------------------------------------------------- C17
\* Task bodies of the invocation of c that are executing.
ExecutingOf(c) == {t \in TaskIds : towner[t] = c /\ Executing(t)}

\* C17: the cap is process-wide: with invocations of ParallelCtx running at
\* the same time in different goroutines there is one semaphore, made once,
\* and the bodies executing in all the invocations together never outnumber
\* its capacity.
C17_CapProcessWide ==
    /\ numParallelCalls <= 1
    /\ Cardinality(ExecutingOf(Main)) + Cardinality(ExecutingOf(Other))
           <= parallelJobsSemaphore.cap

\* Two invocations run at once: a body of the one executes with the only
\* slot while a task of the other waits for it.
C17_Witness ==
    /\ rpc[Main] = "run" /\ rpc[Other] = "run"
    /\ parallelJobsSemaphore.cap = 1
    /\ \E t, u \in TaskIds :
          /\ towner[t] = Main /\ Executing(t)
          /\ towner[u] = Other /\ tpc[u] = "send"

\* ---------------------------------------------------------------- C18
\* The task is between the mu.Lock() and the mu.Unlock() of an append.
Appending(t) == tpc[t] \in {"errappend", "recappend"}
\* The task has still to do an append: it is at one, or waits for mu.
BeforeAppend(t) == tpc[t] \in {"errlock", "errappend", "reclock", "recappend"}

\* C18: every append to errs is made holding mu, by one task at a time, and
\* before the task's wg.Done(): once the call is over no task of it has an
\* append left, errs holds one message for each function that recorded a
\* failure, none lost, and the failure raised was made of all of them.
C18_NoRecordedFailureMissing ==
    /\ \A t \in TaskIds : Appending(t) => mu[towner[t]] = t /\ tread[t] = errs[towner[t]]
    /\ \A c \in Callers :
          Over(c) =>
              /\ \A t \in CurrentTasks(c) : ~BeforeAppend(t)
              /\ Len(errs[c]) =
                     Cardinality({i \in 1..Len(fnWrappers[c]) : Records(fnWrappers[c][i])})
              /\ rpc[c] = "raised" => raisedMsg[c] = Errorf(Join(errs[c], <<"\n">>))

\* A call has raised with the messages of two tasks, one that returned an
\* error and one that panicked.
C18_Witness ==
    /\ rpc[Main] = "raised"
    /\ Len(errs[Main]) = 2
    /\ \E t, u \in CurrentTasks(Main) : tfn[t].kind = "err" /\ tfn[u].kind = "panic"

\* ---------------------------------------------------------------- C19
\* An element of fns is not of a supported function type.
HasUnsupported(fns) == \E i \in 1..Len(fns) : fns[i] = FnInvalid

\* C19: if an element passed to ParallelCtx is of no supported function type,
\* the call panics in the validation loop, with the message of line 517 and
\* with fewer wrappers than elements: the step starts no goroutine, leaves
\* the semaphore and errs as they were, and afterwards the call has no task,
\* nothing to start and nothing to wait for, also when earlier elements of
\* the list were valid.
C19_UnsupportedPanicsBeforeStart ==
    /\ [][\A fns \in AnyFnLists :
            (ParallelCtx(Main, CallerCtx, fns) /\ HasUnsupported(fns)) =>
                /\ rpc'[Main] = "panicked"
                /\ raisedMsg'[Main] = InvalidDepText
                /\ Len(fnWrappers'[Main]) < Len(fns)
                /\ parallelJobsSemaphore' = parallelJobsSemaphore
                /\ tpc' = tpc /\ nextTask' = nextTask
                /\ errs' = errs /\ wg' = wg]_vars
    /\ [](\A c \in Callers :
            rpc[c] = "panicked" =>
                /\ CurrentTasks(c) = {}
                /\ ~ENABLED Spawn(c)
                /\ ~ENABLED Wait(c))

\* A second call has panicked at its second element, after wrapping the
\* first, while a task of the first call still holds a token.
C19_Witness ==
    /\ rpc[Main] = "panicked"
    /\ ncalls[Main] = 2
    /\ Len(fnWrappers[Main]) = 1
    /\ parallelJobsSemaphore.len > 0

\* ---------------------------------------------------------------- C20
\* The task has done its send and not yet its receive.
HoldsToken(t) ==
    tpc[t] \in {"body", "errlock", "errappend", "defer", "reclock", "recappend", "done",
                "release", "receive"}

\* C20: token accounting: in every reachable state the tokens in the
\* semaphore are as many as the tasks that have done their send and not yet
\* their receive; a task at its deferred receive is one of them, so the token
\* it takes is one it has put in.
C20_TokenAccounting ==
    /\ parallelJobsSemaphore.len = Cardinality({t \in TaskIds : HoldsToken(t)})
    /\ \A t \in TaskIds : tpc[t] \in {"release", "receive"} => CanReceive(parallelJobsSemaphore)

\* Two tokens are in the channel: one of a task at its receive, one of a
\* task whose body executes.
C20_Witness ==
    /\ parallelJobsSemaphore.len = 2
    /\ \E t, u \in TaskIds : tpc[t] = "receive" /\ tpc[u] = "body"

====
